---------------------------- MODULE Spec2Model ----------------------------
(***************************************************************************)
(* Grid search over the damping and mindist parameters of a spline         *)
(* gridder, as performed by the model-selection notebook                   *)
(* (src/.ipynb_checkpoints/model_selection-checkpoint.ipynb).              *)
(*                                                                         *)
(* The notebook is a sequence of cells executed in order; an uncaught      *)
(* exception stops the execution.  pc names the cell that is (or was, when *)
(* err is set) being executed.  Python objects live in heap and are        *)
(* referred to by their index, so that two names bound to the same object  *)
(* share its state.  Indices into Python lists are 0-based as in the       *)
(* source; TLA+ sequences are 1-based, hence the "+ 1" at element access.  *)
(* A name that is not bound yet holds the empty set, a bound one holds a   *)
(* singleton.  Scores are reals in the source; they are drawn from a small *)
(* totally ordered set of integers here.                                   *)
(***************************************************************************)
EXTENDS Integers, Sequences, FiniteSets, TLC

\* Longest candidate list (dampings, mindists) that is explored.
MaxLen == 2

\* Number of executions of the notebook that is explored (SpecRerun).
MaxRuns == 2

\* Candidate values of the two tuned parameters.  "None" is Python's None,
\* which is also the default damping; mindist 0 stands for the default
\* mindist of the gridder, 5000 for any other value.
DampingVals == {"None", "1e-4"}
MindistVals == {0, 5000}

ScoreVals == {0, 1, 2}

val(s) == CHOOSE x \in s : TRUE

\* Lists of at most n elements of S.
SeqUpTo(S, n) == UNION {[1..k -> S] : k \in 0..n}

\* A Configuration: dict(damping=..., mindist=...).
Configs == [damping : DampingVals, mindist : MindistVals]

\* What one evaluation np.mean(vd.cross_val_score(model, ...)) yields: a
\* score, or an exception raised by the library.
Outcomes == {[ok |-> TRUE, value |-> v] : v \in ScoreVals}
              \cup {[ok |-> FALSE, value |-> 0]}

NoError == [type |-> "none", config |-> {}]

\* The exception of the scoring library, as it leaves the call: the notebook
\* has no try/except, so nothing is wrapped around it or attached to it.
ScorerError == [type |-> "ScorerError", config |-> {}]

\* np.argmax of an empty sequence raises ValueError.
ValueError == [type |-> "ValueError", config |-> {}]

VARIABLES
    dampings,        \* list of candidate dampings
    mindists,        \* list of candidate mindists
    scorer,          \* the (deterministic) scoring function on the dataset
    pc,              \* the cell being executed
    err,             \* the uncaught exception, NoError while running
    heap,            \* the gridder objects created so far
    spline_default,  \* index in heap of the baseline gridder, 0 when unbound
    spline,          \* index in heap of the swept gridder, 0 when unbound
    score_default,   \* {} or {baseline score}
    parameter_sets,  \* list of Configurations
    scores,          \* list of scores
    it,              \* position of the for loop's iterator in parameter_sets
    params,          \* {} or {loop variable}
    best,            \* {} or {index of the best score}
    result,          \* {} or {what the last cell prints}
    calls,           \* history: the scoring calls made, in order
    run,             \* number of this execution of the notebook
    prev             \* {} or {what the previous execution left}

inputs == <<dampings, mindists, scorer>>
state == <<pc, err, heap, spline_default, spline, score_default,
           parameter_sets, scores, it, params, best, result, calls>>
vars == <<inputs, state, run, prev>>

---------------------------------------------------------------------------
(* The library calls the notebook makes.                                   *)

\* vd.Spline(): a new gridder with the default parameters, not fitted.
Spline == [damping |-> "None", mindist |-> 0, fitted |-> FALSE]

\* Variant that treats None as "leave the parameter as it is".
set_params_skip_none(model, p) ==
    [model EXCEPT !.damping = IF p.damping = "None" THEN @ ELSE p.damping,
                  !.mindist = p.mindist]

\* model.set_params(**params): every key given is set on the model.
set_params(model, p) ==
    [model EXCEPT !.damping = p.damping, !.mindist = p.mindist]

\* model.fit(coordinates, data)
fit(model) == [model EXCEPT !.fitted = TRUE]

\* Variant whose folds are shuffled without a fixed seed: the score of a
\* model changes from one execution to the next.
cross_val_score_unseeded(model) ==
    LET o == scorer[[damping |-> model.damping, mindist |-> model.mindist]]
    IN  IF o.ok /\ run > 1 THEN [o EXCEPT !.value = (@ + 1) % 3] ELSE o

\* np.mean(vd.cross_val_score(model, coordinates, data)): the score of the
\* model's current parameters on the fixed dataset.  The model is cloned,
\* not fitted.
cross_val_score(model) ==
    scorer[[damping |-> model.damping, mindist |-> model.mindist]]

\* The record of one scoring call: the cell, the object and its parameters.
Call(cell, obj, model) ==
    [cell |-> cell, obj |-> obj,
     damping |-> model.damping, mindist |-> model.mindist]

---------------------------------------------------------------------------
(* itertools.product(dampings, mindists) and the list comprehension.       *)

\* Variant with an off-by-one bug: the last element of the pool is left out.
with_each_short(x, pool) == [j \in 1..(Len(pool) - 1) |-> Append(x, pool[j])]

\* [x + [y] for y in pool]
with_each(x, pool) == [j \in 1..Len(pool) |-> Append(x, pool[j])]

\* Variant with the two loops swapped: [x + [y] for y in pool for x in result]
RECURSIVE flat_map_swapped(_, _)
flat_map_swapped(res, pool) ==
    IF pool = <<>> THEN <<>>
    ELSE [i \in 1..Len(res) |-> Append(res[i], Head(pool))]
           \o flat_map_swapped(res, Tail(pool))

\* [x + [y] for x in result for y in pool]
RECURSIVE flat_map(_, _)
flat_map(res, pool) ==
    IF res = <<>> THEN <<>>
    ELSE with_each(Head(res), pool) \o flat_map(Tail(res), pool)

\* result = [[]]; for pool in pools: result = [x+[y] for x in result for y in pool]
RECURSIVE product_fold(_, _)
product_fold(res, pools) ==
    IF pools = <<>> THEN res
    ELSE product_fold(flat_map(res, Head(pools)), Tail(pools))

product(pools) == product_fold(<< <<>> >>, pools)

\* [dict(damping=combo[0], mindist=combo[1]) for combo in product(...)]
make_parameter_sets(ds, ms) ==
    LET combos == product(<<ds, ms>>)
    IN  [k \in 1..Len(combos) |->
            [damping |-> combos[k][1], mindist |-> combos[k][2]]]

---------------------------------------------------------------------------
(* np.argmax(scores): a scan that keeps the index of the largest element   *)
(* seen so far and replaces it only by a strictly larger one.              *)

\* Variant that also replaces it by an equal one.
RECURSIVE argmax_scan_last(_, _, _)
argmax_scan_last(a, i, mi) ==
    IF i >= Len(a) THEN mi
    ELSE argmax_scan_last(a, i + 1, IF a[i + 1] >= a[mi + 1] THEN i ELSE mi)

RECURSIVE argmax_scan(_, _, _)
argmax_scan(a, i, mi) ==
    IF i >= Len(a) THEN mi
    ELSE argmax_scan(a, i + 1, IF a[i + 1] > a[mi + 1] THEN i ELSE mi)

argmax_last(a) == argmax_scan_last(a, 1, 0)

argmax(a) == argmax_scan(a, 1, 0)

---------------------------------------------------------------------------
(* The cells.                                                              *)

Running == err = NoError

InitState ==
    /\ pc = "baseline"
    /\ err = NoError
    /\ heap = <<>>
    /\ spline_default = 0
    /\ spline = 0
    /\ score_default = {}
    /\ parameter_sets = <<>>
    /\ scores = <<>>
    /\ it = 0
    /\ params = {}
    /\ best = {}
    /\ result = {}
    /\ calls = <<>>

Init ==
    /\ dampings \in SeqUpTo(DampingVals, MaxLen)
    /\ mindists \in SeqUpTo(MindistVals, MaxLen)
    /\ scorer \in [Configs -> Outcomes]
    /\ InitState
    /\ run = 1
    /\ prev = {}

\* spline_default = vd.Spline(); score_default = np.mean(cross_val_score(..));
\* spline_default.fit(..)
Baseline ==
    /\ pc = "baseline" /\ Running
    /\ LET id == Len(heap) + 1
           o == cross_val_score(Spline)
       IN  /\ spline_default' = id
           /\ calls' = Append(calls, Call("baseline", id, Spline))
           /\ IF o.ok
              THEN /\ score_default' = {o.value}
                   /\ heap' = Append(heap, fit(Spline))
                   /\ pc' = "build"
                   /\ err' = err
              ELSE /\ heap' = Append(heap, Spline)
                   /\ err' = ScorerError
                   /\ UNCHANGED <<score_default, pc>>
    /\ UNCHANGED <<inputs, spline, parameter_sets, scores, it, params, best,
                   result, run, prev>>

\* dampings = [...]; mindists = [...]; parameter_sets = [...]
Build ==
    /\ pc = "build" /\ Running
    /\ parameter_sets' = make_parameter_sets(dampings, mindists)
    /\ pc' = "sweep_init"
    /\ UNCHANGED <<inputs, err, heap, spline_default, spline, score_default,
                   scores, it, params, best, result, calls, run, prev>>

\* Variant that reuses the baseline gridder: spline = spline_default
SweepInitAliased ==
    /\ pc = "sweep_init" /\ Running
    /\ spline' = spline_default
    /\ scores' = <<>>
    /\ it' = 0
    /\ pc' = "sweep"
    /\ UNCHANGED <<inputs, err, heap, spline_default, score_default,
                   parameter_sets, params, best, result, calls, run, prev>>

\* spline = vd.Spline(); scores = []
SweepInit ==
    /\ pc = "sweep_init" /\ Running
    /\ heap' = Append(heap, Spline)
    /\ spline' = Len(heap) + 1
    /\ scores' = <<>>
    /\ it' = 0
    /\ pc' = "sweep"
    /\ UNCHANGED <<inputs, err, spline_default, score_default, parameter_sets,
                   params, best, result, calls, run, prev>>

\* One iteration of: for params in parameter_sets:
\*     spline.set_params(**params); score = np.mean(cross_val_score(..));
\*     scores.append(score)
SweepBody(raised, keep) ==
    /\ pc = "sweep" /\ Running
    /\ it < Len(parameter_sets)
    /\ LET p == parameter_sets[it + 1]
           model == set_params(heap[spline], p)
           o == cross_val_score(model)
       IN  /\ it' = it + 1
           /\ params' = {p}
           /\ heap' = [heap EXCEPT ![spline] = model]
           /\ calls' = Append(calls, Call("sweep", spline, model))
           /\ IF o.ok
              THEN /\ scores' = (IF keep THEN Append(scores, o.value)
                                 ELSE <<o.value>>)
                   /\ err' = err
              ELSE /\ err' = raised
                   /\ scores' = scores
    /\ UNCHANGED <<inputs, pc, spline_default, spline, score_default,
                   parameter_sets, best, result, run, prev>>

\* Variant with "except Exception: continue" around the scoring call.
SweepStepSwallow == SweepBody(NoError, TRUE)

\* Variant with "except Exception: raise ValueError(...)" around it.
SweepStepWrap == SweepBody(ValueError, TRUE)

\* Variant with "scores = [score]" in place of scores.append(score).
SweepStepAssign == SweepBody(ScorerError, FALSE)

SweepStep == SweepBody(ScorerError, TRUE)

\* The iterator is exhausted: print(scores), and the cell is done.
SweepExit ==
    /\ pc = "sweep" /\ Running
    /\ it >= Len(parameter_sets)
    /\ pc' = "select"
    /\ UNCHANGED <<inputs, err, heap, spline_default, spline, score_default,
                   parameter_sets, scores, it, params, best, result, calls,
                   run, prev>>

\* Variant in which an empty scores list selects nothing instead of raising.
SelectLenient ==
    /\ pc = "select" /\ Running
    /\ IF scores = <<>>
       THEN /\ pc' = "done"
            /\ UNCHANGED <<err, best, result>>
       ELSE /\ best' = {argmax(scores)}
            /\ result' = {[score |-> scores[argmax(scores) + 1],
                           baseline |-> val(score_default),
                           params |-> parameter_sets[argmax(scores) + 1]]}
            /\ pc' = "done"
            /\ err' = err
    /\ UNCHANGED <<inputs, heap, spline_default, spline, score_default,
                   parameter_sets, scores, it, params, calls, run, prev>>

\* best = np.argmax(scores); print scores[best], score_default,
\* parameter_sets[best]
Select ==
    /\ pc = "select" /\ Running
    /\ IF scores = <<>>
       THEN /\ err' = ValueError
            /\ UNCHANGED <<pc, best, result>>
       ELSE /\ best' = {argmax(scores)}
            /\ result' = {[score |-> scores[argmax(scores) + 1],
                           baseline |-> val(score_default),
                           params |-> parameter_sets[argmax(scores) + 1]]}
            /\ pc' = "done"
            /\ err' = err
    /\ UNCHANGED <<inputs, heap, spline_default, spline, score_default,
                   parameter_sets, scores, it, params, calls, run, prev>>

Terminated == pc = "done" \/ ~Running

\* What an execution leaves behind.
Snapshot ==
    [pc |-> pc, err |-> err, score_default |-> score_default,
     parameter_sets |-> parameter_sets, scores |-> scores, best |-> best,
     result |-> result]

\* The notebook is executed again from the top in a fresh kernel, on the
\* same data.
Rerun ==
    /\ Terminated
    /\ run < MaxRuns
    /\ run' = run + 1
    /\ prev' = {Snapshot}
    /\ pc' = "baseline"
    /\ err' = NoError
    /\ heap' = <<>>
    /\ spline_default' = 0
    /\ spline' = 0
    /\ score_default' = {}
    /\ parameter_sets' = <<>>
    /\ scores' = <<>>
    /\ it' = 0
    /\ params' = {}
    /\ best' = {}
    /\ result' = {}
    /\ calls' = <<>>
    /\ UNCHANGED inputs

Next ==
    \/ Baseline
    \/ Build
    \/ SweepInit
    \/ SweepStep
    \/ SweepExit
    \/ Select

Spec == Init /\ [][Next]_vars

\* The cells run one after the other without waiting for anything.
FairSpec == Spec /\ WF_vars(Next)

NextRerun == Next \/ Rerun

SpecRerun == Init /\ [][NextRerun]_vars

---------------------------------------------------------------------------
(* Properties.                                                             *)

\* The scoring calls made by the sweep, in order.
SweepCalls == SelectSeq(calls, LAMBDA c : c.cell = "sweep")

\* Number of positions of list s that hold x.
Count(s, x) == Cardinality({i \in 1..Len(s) : s[i] = x})

Range(s) == {s[i] : i \in 1..Len(s)}

DefaultConfig == [damping |-> Spline.damping, mindist |-> Spline.mindist]

EmptySpace == dampings = <<>> \/ mindists = <<>>

\* No evaluation of this execution can fail.
NoFail ==
    /\ scorer[DefaultConfig].ok
    /\ \A d \in Range(dampings), m \in Range(mindists) :
          scorer[[damping |-> d, mindist |-> m]].ok

Built == pc \in {"sweep_init", "sweep", "select", "done"}

\* C1: the selected index holds the maximum of the recorded scores and is
\* the first index that does; the Result reports that score and the
\* Configuration at that index.  Scores 0,1,1,2 select index 3 and equal
\* scores select index 0.
C1_StableArgmax ==
    /\ pc = "done" => best # {}
    /\ best # {} =>
          LET b == val(best)
          IN  /\ b \in 0..(Len(scores) - 1)
              /\ \A j \in 1..Len(scores) : scores[j] <= scores[b + 1]
              /\ \A j \in 1..b : scores[j] < scores[b + 1]
              /\ result # {}
              /\ val(result).score = scores[b + 1]
              /\ val(result).params = parameter_sets[b + 1]
              /\ scores = <<0, 1, 1, 2>> => b = 3
              /\ (\A j \in 1..Len(scores) : scores[j] = scores[1]) => b = 0

C1_Witness ==
    /\ pc = "done"
    /\ Len(scores) = 4
    /\ scores[2] = 2 /\ scores[4] = 2 /\ scores[1] < 2
    /\ best = {1}

\* C2: the number of Configurations is len(dampings) * len(mindists), and
\* every combination of a damping and a mindist occurs as often as there are
\* pairs of positions holding it: exactly once when the candidates of each
\* list are distinct.
C2_FullProduct ==
    Built =>
       /\ Len(parameter_sets) = Len(dampings) * Len(mindists)
       /\ \A d \in DampingVals, m \in MindistVals :
             Count(parameter_sets, [damping |-> d, mindist |-> m])
                = Count(dampings, d) * Count(mindists, m)
       /\ \A i \in 1..Len(dampings), j \in 1..Len(mindists) :
             (Count(dampings, dampings[i]) = 1 /\ Count(mindists, mindists[j]) = 1)
                => Count(parameter_sets,
                         [damping |-> dampings[i], mindist |-> mindists[j]]) = 1

C2_Witness ==
    /\ Built
    /\ Len(dampings) = 2 /\ dampings[1] # dampings[2]
    /\ Len(mindists) = 2 /\ mindists[1] # mindists[2]
    /\ Len(parameter_sets) = 4

\* C3: the Configuration at index i has damping = dampings[i div len(mindists)]
\* and mindist = mindists[i mod len(mindists)]: mindist varies fastest.
C3_NestedLoopOrder ==
    Built =>
       \A i \in 0..(Len(parameter_sets) - 1) :
          /\ parameter_sets[i + 1].damping = dampings[(i \div Len(mindists)) + 1]
          /\ parameter_sets[i + 1].mindist = mindists[(i % Len(mindists)) + 1]

C3_Witness ==
    /\ dampings = <<"None", "1e-4">>
    /\ mindists = <<0, 5000>>
    /\ parameter_sets = << [damping |-> "None", mindist |-> 0],
                           [damping |-> "None", mindist |-> 5000],
                           [damping |-> "1e-4", mindist |-> 0],
                           [damping |-> "1e-4", mindist |-> 5000] >>

C4_Safety ==
    EmptySpace =>
       /\ SweepCalls = <<>>
       /\ best = {} /\ result = {}
       /\ pc # "done"
       /\ (~Running /\ pc # "baseline") => (pc = "select" /\ err = ValueError)

C5_AbortAtFailure ==
    \A j \in 0..(Len(parameter_sets) - 1) :
       (Built /\ it > j /\ ~scorer[parameter_sets[j + 1]].ok
           /\ \A k \in 0..(j - 1) : scorer[parameter_sets[k + 1]].ok)
       => /\ pc = "sweep" /\ ~Running
          /\ it = j + 1
          /\ Len(scores) = j
          /\ Len(SweepCalls) = j + 1
          /\ params = {parameter_sets[j + 1]}
          /\ heap[spline].damping = parameter_sets[j + 1].damping
          /\ heap[spline].mindist = parameter_sets[j + 1].mindist
          /\ best = {} /\ result = {}

C5_Witness ==
    /\ Len(parameter_sets) = 4
    /\ pc = "sweep" /\ ~Running
    /\ it = 3 /\ Len(scores) = 2
    /\ ~scorer[parameter_sets[3]].ok
    /\ result = {}

\* C6 as stated: the error of a failed scoring call carries the Configuration
\* that was being scored.
C6_ErrorCarriesConfiguration ==
    (pc = "sweep" /\ ~Running) => err.config = params

\* C6, amended: the error of a failed scoring call is the scoring function's
\* own exception, unchanged and with no Configuration attached; the
\* Configuration that was being scored is the loop variable params, which is
\* parameter_sets[len(scores)].
C6_ErrorIsScorersOwn ==
    (pc = "sweep" /\ ~Running)
       => /\ err = ScorerError
          /\ err.config = {}
          /\ it = Len(scores) + 1
          /\ params = {parameter_sets[Len(scores) + 1]}
          /\ ~scorer[val(params)].ok

C6_Witness ==
    /\ pc = "sweep" /\ ~Running
    /\ err = ScorerError
    /\ Len(scores) = 2
    /\ params = {parameter_sets[3]}

IsPrefix(s, t) == Len(s) <= Len(t) /\ \A i \in 1..Len(s) : s[i] = t[i]

C8_Prefix ==
    NoFail =>
       /\ pc \in {"baseline", "build", "sweep_init", "sweep"} => Running
       /\ Len(scores) <= Len(parameter_sets)
       /\ pc = "sweep" => Len(scores) = it
       /\ Len(SweepCalls) = Len(scores)
       /\ \A i \in 1..Len(scores) :
             /\ scores[i] = scorer[parameter_sets[i]].value
             /\ SweepCalls[i].damping = parameter_sets[i].damping
             /\ SweepCalls[i].mindist = parameter_sets[i].mindist
       /\ pc \in {"select", "done"} => Len(scores) = Len(parameter_sets)

\* C8: when no scoring call fails the sweep ends, after exactly
\* len(parameter_sets) scoring calls, one per Configuration in enumeration
\* order, with scores[i] the score of parameter_sets[i]; until then scores
\* is the score sequence of a prefix of parameter_sets.
C8_SweepCompletes ==
    /\ [] C8_Prefix
    /\ NoFail => <>(/\ pc \in {"select", "done"}
                    /\ Len(SweepCalls) = Len(parameter_sets)
                    /\ Len(scores) = Len(parameter_sets))

C8_Witness ==
    /\ NoFail
    /\ pc = "select"
    /\ Len(parameter_sets) = 4
    /\ Len(SweepCalls) = 4 /\ Len(scores) = 4

\* C9: at every scoring call of the sweep the shared model holds exactly the
\* damping and mindist of the Configuration being evaluated, so each
\* recorded score is the score of its own Configuration whatever was
\* evaluated before.
C9_ModelMatchesConfiguration ==
    /\ Len(SweepCalls) <= Len(parameter_sets)
    /\ \A k \in 1..Len(SweepCalls) :
          /\ SweepCalls[k].obj = spline
          /\ SweepCalls[k].damping = parameter_sets[k].damping
          /\ SweepCalls[k].mindist = parameter_sets[k].mindist
    /\ (pc = "sweep" /\ it > 0) =>
          /\ params = {parameter_sets[it]}
          /\ heap[spline].damping = val(params).damping
          /\ heap[spline].mindist = val(params).mindist
    /\ \A i \in 1..Len(scores) : scores[i] = scorer[parameter_sets[i]].value

C9_Witness ==
    /\ pc = "sweep" /\ it = 3
    /\ parameter_sets[2].damping = "1e-4"
    /\ parameter_sets[3].damping = "None"
    /\ SweepCalls[3].damping = "None"
    /\ Len(scores) = 3

\* C10: the baseline is scored once, first, on a model of its own in the
\* default configuration; the sweep leaves that model's configuration and
\* score_default as they were, and the Result reports that score.
C10_BaselineUntouched ==
    spline_default # 0 =>
       /\ heap[spline_default].damping = Spline.damping
       /\ heap[spline_default].mindist = Spline.mindist
       /\ spline # spline_default
       /\ calls[1] = Call("baseline", spline_default, Spline)
       /\ \A k \in 2..Len(calls) : calls[k].cell = "sweep"
       /\ pc # "baseline" => score_default = {scorer[DefaultConfig].value}
       /\ result # {} => val(result).baseline = scorer[DefaultConfig].value

C10_Witness ==
    /\ pc = "done"
    /\ heap[spline].damping # Spline.damping
    /\ heap[spline].mindist # Spline.mindist
    /\ val(result).baseline = scorer[DefaultConfig].value
    /\ val(result).score # val(result).baseline
    /\ heap[spline_default].fitted

====
